---- MODULE Spec2Model ----
(***************************************************************************)
(* Model of the Upstox authentication core (upstox_auth.py): the UpstoxAuth *)
(* object (credentials, session fields), the token file it persists to and *)
(* restores from, and the remote API boundary, which answers every call    *)
(* with success or failure.                                                *)
(*                                                                         *)
(* One UpstoxAuth object is live at a time; Construct replaces it by a     *)
(* freshly constructed one (a new process start) while the token file      *)
(* stays on disk.                                                          *)
(***************************************************************************)
EXTENDS Integers, Sequences, FiniteSets, TLC

VARIABLES
    api_key,              \* self.api_key
    api_secret,           \* self.api_secret
    redirect_uri,         \* self.redirect_uri
    access_token,         \* self.access_token
    token_expires_at,     \* self.token_expires_at
    is_authenticated,     \* self.is_authenticated
    config_access_token,  \* self.config.access_token
    file,                 \* the token file at file_path
    last,                 \* the last operation called and what it returned
    established,          \* history: an exchange or a restore succeeded on this object
    pristine,             \* history: no method of this object has been called yet
    saved,                \* history: what the last successful save wrote, while the file is untouched
    ctor_args,            \* the arguments of UpstoxAuth(api_key, api_secret, redirect_uri)
    environ,              \* os.environ: the three UPSTOX_* variables
    server_pc,            \* tool server: "start" before `from config import ...`, then "running"
    configuration,        \* config.configuration: the access token the tools send
    config_error,         \* what get_configuration() raised inside the import
    categorized_stocks,   \* the content of categorized_stocks.json
    tool,                 \* the last tool called and what it returned
    main_pc,              \* authenticate.main: the statement the run is at
    entry,                \* what the user typed at "Enter authorization code: "
    main_code,            \* main's local variable code
    exit_status,          \* the exit status of the run
    run,                  \* what the run has done so far
    procs,                \* two processes inside save_token_to_file on the same path
    disk,                 \* the bytes of the token file
    seen                  \* the file content the last load_token_from_file read

\* the UpstoxAuth object, the token file and the history of the calls on the object
authVars == <<api_key, api_secret, redirect_uri, access_token, token_expires_at,
              is_authenticated, config_access_token, file, last, established, pristine,
              saved>>
\* the inputs of a construction
ctorVars == <<ctor_args, environ>>
\* the tool server: config.py and upstox_server.py
serverVars == <<server_pc, configuration, config_error, categorized_stocks, tool>>
\* the interactive flow: authenticate.py
mainVars == <<main_pc, entry, main_code, exit_status, run>>
\* concurrent saves to one path
raceVars == <<procs, disk, seen>>
\* what the calls on one object leave alone
nonAuthVars == <<ctorVars, serverVars, mainVars, raceVars>>
\* what the tool server leaves alone
nonServerVars == <<authVars, ctorVars, mainVars, raceVars>>

vars    == <<api_key, api_secret, redirect_uri, access_token, token_expires_at,
             is_authenticated, config_access_token, file, last, established, pristine,
             saved, ctor_args, environ, server_pc, configuration, config_error,
             categorized_stocks, tool, main_pc, entry, main_code, exit_status, run,
             procs, disk, seen>>

----------------------------------------------------------------------------
(* Bounds and input sets *)

NumTokens == 2
NumTimestamps == 2

TokenNames == <<"T1", "T2", "T3", "T4">>
TimestampNames == <<"2025-01-01T09:00:00", "2025-01-02T09:00:00",
                    "2025-01-03T09:00:00", "2025-01-04T09:00:00">>

\* access tokens the remote token endpoint hands out (non-empty strings)
Tokens == {TokenNames[i] : i \in 1..NumTokens}
\* values of datetime.now().isoformat()
Timestamps == {TimestampNames[i] : i \in 1..NumTimestamps}
\* authorization codes a caller passes
Codes == {"code1", "code2"}
\* state arguments of get_auth_url; the first is the default
OAuthStates == {"upstox_auth", "s1"}
\* errors the remote boundary raises
RemoteErrors == {"(401) Invalid Auth code", "(500) Server error"}

DefaultRedirectUri == "http://localhost:8080"
\* the environment variables __init__ reads
EnvNames == {"UPSTOX_API_KEY", "UPSTOX_API_SECRET", "UPSTOX_REDIRECT_URI"}
\* (api_key, api_secret, redirect_uri) after a successful construction
Credentials == { <<"K", "S", DefaultRedirectUri>>, <<"K2", "S2", "https://app.example/cb">> }

----------------------------------------------------------------------------
(* Python values held in the session fields: None or a str *)

PyNone == [t |-> "none", s |-> ""]
Str(x) == [t |-> "str", s |-> x]

\* variant: `is not None` in place of the truth test
Truthy_not_none(v) == v.t # "none"

\* bool(v) as in `if self.access_token:`
Truthy(v) == v.t = "str" /\ v.s # ""

SyntheticExpiry == "3:30 AM next trading day"

----------------------------------------------------------------------------
(* The token file: JSON text as a sequence of lexemes *)

JNull == [t |-> "null", s |-> ""]
JString(x) == [t |-> "string", s |-> x]

Lex(k, v) == [k |-> k, v |-> v]
OPEN  == Lex("{", JNull)
CLOSE == Lex("}", JNull)
LIST  == Lex("[]", JNull)
Punct == {"{", "}", "[]", "?"}

\* json encoder: None -> null, str -> "..."
JsonEncode(v) == IF v.t = "none" THEN JNull ELSE JString(v.s)
\* json decoder: null -> None, "..." -> str
JsonDecode(j) == IF j.t = "null" THEN PyNone ELSE Str(j.s)

\* json.dump(d, f, indent=2) of a dict given as its items in insertion order
json_dump(items) ==
    <<OPEN>> \o [i \in 1..Len(items) |-> Lex(items[i][1], JsonEncode(items[i][2]))] \o <<CLOSE>>

\* json.load(f): "error" (JSONDecodeError), "list" (a non-dict value) or "dict"
json_load_kind(text) ==
    IF Len(text) = 0 THEN "error"
    ELSE IF text = <<LIST>> THEN "list"
    ELSE IF /\ Len(text) >= 2
            /\ text[1] = OPEN
            /\ text[Len(text)] = CLOSE
            /\ \A i \in 2..(Len(text) - 1) : text[i].k \notin Punct
         THEN "dict"
         ELSE "error"

\* token_data.get(key) on the parsed dict: the last item with that key wins, None if absent
dict_get(text, key) ==
    LET idx == {i \in 2..(Len(text) - 1) : text[i].k = key}
    IN  IF idx = {} THEN PyNone
        ELSE JsonDecode(text[CHOOSE i \in idx : \A j \in idx : j <= i].v)

MissingFile == [exists |-> FALSE, text |-> <<>>]
FileWith(text) == [exists |-> TRUE, text |-> text]

----------------------------------------------------------------------------
(* What an operation reports *)

NoErr == [msg |-> "", cause |-> ""]
Err(msg, cause) == [msg |-> msg, cause |-> cause]

Report(op, arg, ret, calls, err) ==
    [op |-> op, arg |-> arg, ret |-> ret, calls |-> calls, err |-> err,
     url |-> <<>>, token |-> "", io |-> "none", remote |-> "none", fresh |-> pristine]

NotSaved == [valid |-> FALSE, tok |-> PyNone, exp |-> PyNone, after_exchange |-> FALSE]

----------------------------------------------------------------------------
(* UpstoxAuth.__init__ *)

FreshSession ==
    /\ access_token' = PyNone
    /\ token_expires_at' = PyNone
    /\ is_authenticated' = FALSE
    /\ config_access_token' = PyNone

\* the object was built from explicit arguments, with nothing in the environment
CtorIdle ==
    /\ ctor_args = [api_key |-> PyNone, api_secret |-> PyNone, redirect_uri |-> PyNone]
    /\ environ = [n \in EnvNames |-> PyNone]

\* no exception
NoExc == [cls |-> "none", msg |-> "", status |-> ""]

\* what a tool returns: text of some kind, and the matches a search lists
ToolReport(name, args, outcome, kind, text, calls, matches) ==
    [name |-> name, args |-> args, outcome |-> outcome, kind |-> kind, text |-> text,
     calls |-> calls, matches |-> matches]
NoTool == ToolReport("none", <<>>, "", "", <<>>, 0, <<>>)

\* categorized_stocks.json is absent
NoStockFile == [state |-> "missing", cats |-> <<>>]

\* the tool server is not running
ServerIdle ==
    /\ server_pc = "off"
    /\ configuration = PyNone
    /\ config_error = NoExc
    /\ categorized_stocks = NoStockFile
    /\ tool = NoTool

\* the exit status of a run that has not ended
Running == -1
\* what a run of main has done: the file it started on, the exchanges that returned
\* and raised, the calls of save_token_to_file and what the last one returned
RunLog(file0, exchanged, failed, saves, save_ret) ==
    [file0 |-> file0, exchanged |-> exchanged, failed |-> failed, saves |-> saves,
     save_ret |-> save_ret]

\* authenticate.main is not running
MainIdle ==
    /\ main_pc = "off"
    /\ entry = <<>>
    /\ main_code = <<>>
    /\ exit_status = Running
    /\ run = RunLog(MissingFile, 0, 0, 0, "")

\* nothing read yet
NotSeen == [read |-> FALSE, opened |-> FALSE, bytes |-> <<>>]

\* no second process
RaceIdle ==
    /\ procs = <<>>
    /\ disk = <<>>
    /\ seen = NotSeen

Init ==
    /\ \E c \in Credentials :
          /\ api_key = c[1]
          /\ api_secret = c[2]
          /\ redirect_uri = c[3]
    /\ access_token = PyNone
    /\ token_expires_at = PyNone
    /\ is_authenticated = FALSE
    /\ config_access_token = PyNone
    /\ file = MissingFile
    /\ established = FALSE
    /\ pristine = TRUE
    /\ last = Report("__init__", "", "object", 0, NoErr)
    /\ saved = NotSaved
    /\ CtorIdle
    /\ ServerIdle
    /\ MainIdle
    /\ RaceIdle

\* a new UpstoxAuth object replaces the live one; the file stays
Construct ==
    /\ FreshSession
    /\ established' = FALSE
    /\ pristine' = TRUE
    /\ last' = [Report("__init__", "", "object", 0, NoErr) EXCEPT !.fresh = TRUE]
    /\ UNCHANGED <<api_key, api_secret, redirect_uri, file, saved>>

----------------------------------------------------------------------------
(* UpstoxAuth.get_auth_url *)

BaseUrl == "https://api.upstox.com/v2/login/authorization/dialog"

\* variant: the state parameter placed before redirect_uri
AuthUrl_state_first(key, uri, state) ==
    <<BaseUrl, "?", "response_type=code", "&", "client_id=", key, "&",
      "state=", state, "&", "redirect_uri=", uri>>

\* the f-string of get_auth_url, piece by piece
AuthUrl(key, uri, state) ==
    <<BaseUrl, "?", "response_type=code", "&", "client_id=", key, "&",
      "redirect_uri=", uri, "&", "state=", state>>

get_auth_url(state) ==
    /\ last' = [Report("get_auth_url", state, "url", 0, NoErr)
                  EXCEPT !.url = AuthUrl(api_key, redirect_uri, state)]
    /\ UNCHANGED <<api_key, api_secret, redirect_uri, access_token, token_expires_at,
                   is_authenticated, config_access_token, file, established, saved>>
    /\ pristine' = FALSE

----------------------------------------------------------------------------
(* UpstoxAuth.set_access_token *)

\* what login_api.token(...) does: raise an error, or return a response with a token.
\* The response object carries every attribute the method reads afterwards, so the
\* token call is the only statement of the try block that raises.
TokenResponses ==
    {[ok |-> TRUE, token |-> t, error |-> ""] : t \in Tokens}
    \cup {[ok |-> FALSE, token |-> "", error |-> e] : e \in RemoteErrors}

\* the token call returned: store the token, report the token information
set_access_token_store(code, token) ==
    /\ access_token' = Str(token)
    /\ token_expires_at' = Str(SyntheticExpiry)
    /\ config_access_token' = access_token'
    /\ is_authenticated' = TRUE
    /\ established' = TRUE
    /\ last' = [Report("set_access_token", code, "dict", 1, NoErr)
                  EXCEPT !.token = token, !.remote = "ok"]
    /\ pristine' = FALSE
    /\ UNCHANGED <<api_key, api_secret, redirect_uri, file, saved>>

\* variant: the flag is set before the token call, and the failure does not undo it
set_access_token_except_flagged(code, error) ==
    /\ is_authenticated' = TRUE
    /\ last' = [Report("set_access_token", code, "raise", 1,
                       Err("Failed to exchange authorization code", error))
                  EXCEPT !.remote = error]
    /\ pristine' = FALSE
    /\ UNCHANGED <<api_key, api_secret, redirect_uri, access_token, token_expires_at,
                   config_access_token, file, established, saved>>

\* the token call raised: the except clause wraps the error and raises
set_access_token_except(code, error) ==
    /\ last' = [Report("set_access_token", code, "raise", 1,
                       Err("Failed to exchange authorization code", error))
                  EXCEPT !.remote = error]
    /\ UNCHANGED <<api_key, api_secret, redirect_uri, access_token, token_expires_at,
                   is_authenticated, config_access_token, file, established, saved>>
    /\ pristine' = FALSE

set_access_token(code) ==
    \E resp \in TokenResponses :
        IF resp.ok
        THEN set_access_token_store(code, resp.token)
        ELSE set_access_token_except(code, resp.error)

----------------------------------------------------------------------------
(* UpstoxAuth.load_token_from_file *)

\* the file is missing, or open, json.load or token_data.get raised (an unreadable
\* file ends in the same except clause as a malformed one): return False
load_token_failed ==
    /\ last' = Report("load_token_from_file", "", "False", 0, NoErr)
    /\ UNCHANGED <<api_key, api_secret, redirect_uri, access_token, token_expires_at,
                   is_authenticated, config_access_token, file, established, saved>>
    /\ pristine' = FALSE

\* variant: the flag follows the token, so a file without a token logs the session out
load_token_assign_resets(tok, exp) ==
    /\ access_token' = tok
    /\ token_expires_at' = exp
    /\ is_authenticated' = Truthy(tok)
    /\ IF Truthy(tok)
       THEN /\ config_access_token' = tok
            /\ established' = TRUE
            /\ last' = Report("load_token_from_file", "", "True", 0, NoErr)
       ELSE /\ last' = Report("load_token_from_file", "", "False", 0, NoErr)
            /\ UNCHANGED <<config_access_token, established>>
    /\ pristine' = FALSE
    /\ UNCHANGED <<api_key, api_secret, redirect_uri, file, saved>>

\* the file parsed to a dict: both fields are assigned, then the token is tested
load_token_assign(tok, exp) ==
    /\ access_token' = tok
    /\ token_expires_at' = exp
    /\ IF Truthy(tok)
       THEN /\ config_access_token' = tok
            /\ is_authenticated' = TRUE
            /\ established' = TRUE
            /\ last' = Report("load_token_from_file", "", "True", 0, NoErr)
       ELSE /\ last' = Report("load_token_from_file", "", "False", 0, NoErr)
            /\ UNCHANGED <<config_access_token, is_authenticated, established>>
    /\ pristine' = FALSE
    /\ UNCHANGED <<api_key, api_secret, redirect_uri, file, saved>>

load_token_from_file ==
    IF file.exists /\ json_load_kind(file.text) = "dict"
    THEN load_token_assign(dict_get(file.text, "access_token"),
                           dict_get(file.text, "expires_at"))
    ELSE load_token_failed

----------------------------------------------------------------------------
(* UpstoxAuth.save_token_to_file *)

\* variant: the record is written without its expires_at item
token_data_no_expiry(tok, exp, now) ==
    << <<"access_token", tok>>, <<"saved_at", Str(now)>> >>

\* the token_data dict, items in insertion order
token_data(tok, exp, now) ==
    << <<"access_token", tok>>, <<"expires_at", exp>>, <<"saved_at", Str(now)>> >>

\* variant: the file is opened in append mode
append_file(old, text) == FileWith(old.text \o text)

\* open(file_path, 'w') then the writes until close: the old content is dropped
write_file(old, text) == FileWith(text)

\* what the file system does to a save: the write goes through, open() raises,
\* or a write raises after open() truncated the file
IoOutcomes == {"ok", "open_fails", "write_fails"}

StrictPrefixes(text) == {SubSeq(text, 1, n) : n \in 0..(Len(text) - 1)}

save_token_to_file ==
    IF Truthy(access_token)
    THEN \E now \in Timestamps, io \in IoOutcomes :
            LET text == json_dump(token_data(access_token, token_expires_at, now))
                rep(ret) == [Report("save_token_to_file", now, ret, 0, NoErr) EXCEPT !.io = io]
            IN  /\ CASE io = "ok" ->
                          /\ file' = write_file(file, text)
                          /\ saved' = [valid |-> TRUE, tok |-> access_token,
                                       exp |-> token_expires_at,
                                       after_exchange |-> (last.op = "set_access_token"
                                                          /\ last.ret = "dict")]
                          /\ last' = rep("True")
                     [] io = "open_fails" ->
                          /\ last' = rep("False")
                          /\ UNCHANGED <<file, saved>>
                     [] io = "write_fails" ->
                          /\ \E part \in StrictPrefixes(text) : file' = write_file(file, part)
                          /\ saved' = NotSaved
                          /\ last' = rep("False")
                /\ pristine' = FALSE
                /\ UNCHANGED <<api_key, api_secret, redirect_uri, access_token,
                               token_expires_at, is_authenticated, config_access_token,
                               established>>
    ELSE /\ last' = Report("save_token_to_file", "", "False", 0, NoErr)
         /\ pristine' = FALSE
         /\ UNCHANGED <<api_key, api_secret, redirect_uri, access_token, token_expires_at,
                        is_authenticated, config_access_token, file, established, saved>>

----------------------------------------------------------------------------
(* UpstoxAuth.get_user_profile, get_market_status, check_connection *)

\* what a remote data call does: return, or raise an error
RemoteOutcomes == {"ok"} \cup RemoteErrors

\* variant: the guard tests the token field against None instead of the flag
not_authenticated_by_token == access_token = PyNone

\* the guard `if not self.is_authenticated`
not_authenticated == ~is_authenticated

NotAuthenticatedMsg == "Not authenticated. Please set access token first."

\* the guard, then the remote call inside try/except; msg is the except clause's prefix
guarded_call(op, msg, remote) ==
    IF not_authenticated
    THEN Report(op, "", "raise", 0, Err(NotAuthenticatedMsg, ""))
    ELSE IF remote = "ok"
         THEN [Report(op, "", "dict", 1, NoErr) EXCEPT !.remote = remote]
         ELSE [Report(op, "", "raise", 1, Err(msg, remote)) EXCEPT !.remote = remote]

get_user_profile ==
    /\ \E remote \in RemoteOutcomes :
          last' = guarded_call("get_user_profile", "Failed to get user profile", remote)
    /\ UNCHANGED <<api_key, api_secret, redirect_uri, access_token, token_expires_at,
                   is_authenticated, config_access_token, file, established, saved>>
    /\ pristine' = FALSE

get_market_status ==
    /\ \E remote \in RemoteOutcomes :
          last' = guarded_call("get_market_status", "Failed to get market status", remote)
    /\ UNCHANGED <<api_key, api_secret, redirect_uri, access_token, token_expires_at,
                   is_authenticated, config_access_token, file, established, saved>>
    /\ pristine' = FALSE

\* variant: no try/except around the profile call, its error escapes
check_connection_result_uncaught(remote) ==
    IF ~is_authenticated
    THEN Report("check_connection", "", "not_connected", 0, Err("Not authenticated", ""))
    ELSE LET p == guarded_call("get_user_profile", "Failed to get user profile", remote)
         IN  IF p.ret = "dict"
             THEN [Report("check_connection", "", "connected", p.calls, NoErr)
                     EXCEPT !.remote = p.remote]
             ELSE [Report("check_connection", "", "raise", p.calls, p.err)
                     EXCEPT !.remote = p.remote]

\* check_connection's try body and except clause: the result dict
check_connection_result(remote) ==
    IF ~is_authenticated
    THEN Report("check_connection", "", "not_connected", 0, Err("Not authenticated", ""))
    ELSE LET p == guarded_call("get_user_profile", "Failed to get user profile", remote)
         IN  IF p.ret = "dict"
             THEN [Report("check_connection", "", "connected", p.calls, NoErr)
                     EXCEPT !.remote = p.remote]
             ELSE [Report("check_connection", "", "not_connected", p.calls, p.err)
                     EXCEPT !.remote = p.remote]

check_connection ==
    /\ \E remote \in RemoteOutcomes : last' = check_connection_result(remote)
    /\ UNCHANGED <<api_key, api_secret, redirect_uri, access_token, token_expires_at,
                   is_authenticated, config_access_token, file, established, saved>>
    /\ pristine' = FALSE

----------------------------------------------------------------------------
(* The token file as the environment leaves it *)

AbsentField == [t |-> "absent", s |-> ""]
TokenFields == {AbsentField, JNull, JString("")} \cup {JString(t) : t \in Tokens}
ExpiryFields == {AbsentField, JNull, JString(SyntheticExpiry)}

FieldLex(k, j) == IF j = AbsentField THEN <<>> ELSE <<Lex(k, j)>>
ObjectText(tokf, expf) ==
    <<OPEN>> \o FieldLex("access_token", tokf) \o FieldLex("expires_at", expf) \o <<CLOSE>>

\* a missing file, JSON objects with every combination of the two fields, the same cut
\* short before the closing brace, an empty file and a JSON list
EnvFiles ==
    {MissingFile, FileWith(<<>>), FileWith(<<LIST>>)}
    \cup {FileWith(ObjectText(t, e)) : t \in TokenFields, e \in ExpiryFields}
    \cup {FileWith(SubSeq(ObjectText(t, e), 1, Len(ObjectText(t, e)) - 1)) :
            t \in TokenFields, e \in ExpiryFields}

\* someone else creates, edits or deletes the token file
ExternalWrite ==
    /\ \E f \in EnvFiles : file' = f
    /\ saved' = NotSaved
    /\ last' = Report("external_write", "", "", 0, NoErr)
    /\ UNCHANGED <<api_key, api_secret, redirect_uri, access_token, token_expires_at,
                   is_authenticated, config_access_token, established, pristine>>

----------------------------------------------------------------------------
Next ==
    \/ Construct /\ UNCHANGED nonAuthVars
    \/ (\E state \in OAuthStates : get_auth_url(state)) /\ UNCHANGED nonAuthVars
    \/ (\E code \in Codes : set_access_token(code)) /\ UNCHANGED nonAuthVars
    \/ load_token_from_file /\ UNCHANGED nonAuthVars
    \/ save_token_to_file /\ UNCHANGED nonAuthVars
    \/ get_user_profile /\ UNCHANGED nonAuthVars
    \/ get_market_status /\ UNCHANGED nonAuthVars
    \/ check_connection /\ UNCHANGED nonAuthVars
    \/ ExternalWrite /\ UNCHANGED nonAuthVars

Spec == Init /\ [][Next]_vars

----------------------------------------------------------------------------
(* UpstoxAuth.__init__ on its arguments and the environment *)

\* Python's `a or b`
PyOr(a, b) == IF Truthy(a) THEN a ELSE b

\* os.getenv(name, default)
getenv(env, name, default) == IF env[name] = PyNone THEN default ELSE env[name]

\* self.api_key, self.api_secret and self.redirect_uri as lines 36-38 resolve them
resolved_api_key(args, env) == PyOr(args.api_key, getenv(env, "UPSTOX_API_KEY", PyNone))
resolved_api_secret(args, env) ==
    PyOr(args.api_secret, getenv(env, "UPSTOX_API_SECRET", PyNone))
resolved_redirect_uri(args, env) ==
    PyOr(args.redirect_uri, getenv(env, "UPSTOX_REDIRECT_URI", Str(DefaultRedirectUri)))

\* the str held by a field, "" standing for a field that holds None
FieldText(v) == IF v.t = "str" THEN v.s ELSE ""

\* an argument or an environment variable: absent (None / unset), empty, or a value
CtorValues(x) == {PyNone, Str(""), Str(x)}

\* no object exists yet; the arguments and the environment are any combination
CtorInit ==
    /\ ctor_args \in [api_key : CtorValues("K"), api_secret : CtorValues("S"),
                       redirect_uri : CtorValues("https://app.example/cb")]
    /\ environ \in [EnvNames -> CtorValues("from_env")]
    /\ api_key = ""
    /\ api_secret = ""
    /\ redirect_uri = ""
    /\ access_token = PyNone
    /\ token_expires_at = PyNone
    /\ is_authenticated = FALSE
    /\ config_access_token = PyNone
    /\ file = MissingFile
    /\ established = FALSE
    /\ pristine = TRUE
    /\ last = Report("start", "", "", 0, NoErr)
    /\ saved = NotSaved
    /\ ServerIdle
    /\ MainIdle
    /\ RaceIdle

\* UpstoxAuth(api_key, api_secret, redirect_uri): ValueError, or the object
UpstoxAuth_init ==
    /\ last.op = "start"
    /\ LET k == resolved_api_key(ctor_args, environ)
           sec == resolved_api_secret(ctor_args, environ)
           r == resolved_redirect_uri(ctor_args, environ)
       IN  IF ~Truthy(k) \/ ~Truthy(sec)
           THEN /\ last' = Report("__init__", "", "raise", 0,
                                  Err("API key and secret are required.", "ValueError"))
                /\ UNCHANGED <<api_key, api_secret, redirect_uri, access_token,
                               token_expires_at, is_authenticated, config_access_token>>
           ELSE /\ api_key' = FieldText(k)
                /\ api_secret' = FieldText(sec)
                /\ redirect_uri' = FieldText(r)
                /\ FreshSession
                /\ last' = Report("__init__", "", "object", 0, NoErr)
    /\ UNCHANGED <<file, established, pristine, saved>>

CtorNext ==
    \/ UpstoxAuth_init /\ UNCHANGED nonAuthVars

CtorSpec == CtorInit /\ [][CtorNext]_vars

----------------------------------------------------------------------------
(* config.py: the configuration the tool server imports *)

\* an exception object: its class, str(e) and, for ApiException, status
Exc(cls, msg) == [cls |-> cls, msg |-> msg, status |-> ""]
ApiException(status, reason) == [cls |-> "ApiException", msg |-> reason, status |-> status]

\* what a call gives back: a value, or the exception it raised
Returned(v) == [exc |-> NoExc, value |-> v]
Raised(e) == [exc |-> e, value |-> PyNone]

\* get_configuration() without the test of the token read from the file
get_configuration_unchecked(f) ==
    IF ~f.exists
    THEN Raised(Exc("FileNotFoundError", "Token file not found. Please run authentication first"))
    ELSE IF json_load_kind(f.text) = "error"
    THEN Raised(Exc("ValueError", "Invalid token file format"))
    ELSE IF json_load_kind(f.text) = "list"
    THEN Raised(Exc("ValueError", "Error loading configuration: 'list' object has no attribute 'get'"))
    ELSE Returned(dict_get(f.text, "access_token"))

\* get_configuration(): the Configuration carrying the file's access_token, or
\* FileNotFoundError / ValueError
get_configuration(f) ==
    IF ~f.exists
    THEN Raised(Exc("FileNotFoundError", "Token file not found. Please run authentication first"))
    ELSE IF json_load_kind(f.text) = "error"
    THEN Raised(Exc("ValueError", "Invalid token file format"))
    ELSE IF json_load_kind(f.text) = "list"
    THEN Raised(Exc("ValueError", "Error loading configuration: 'list' object has no attribute 'get'"))
    ELSE IF ~Truthy(dict_get(f.text, "access_token"))
    THEN Raised(Exc("ValueError", "Error loading configuration: Access token missing in token file"))
    ELSE Returned(dict_get(f.text, "access_token"))

\* upstox_client.Configuration(): no access token
EmptyConfiguration == PyNone

\* the module body of config.py: try get_configuration(), on any Exception fall back
\* to an empty Configuration and print a warning
import_config ==
    /\ server_pc = "start"
    /\ LET r == get_configuration(file)
       IN  /\ configuration' = IF r.exc = NoExc THEN r.value ELSE EmptyConfiguration
           /\ config_error' = r.exc
    /\ server_pc' = "running"
    /\ UNCHANGED <<categorized_stocks, tool>>

----------------------------------------------------------------------------
(* upstox_server.py: helpers *)

\* handle_api_error that formats an ApiException and lets anything else through
handle_api_error_reraise(name, args, e, context, calls) ==
    IF e.cls = "ApiException"
    THEN ToolReport(name, args, "text", "api_error",
                    <<"API Error during", context, e.status, e.msg>>, calls, <<>>)
    ELSE ToolReport(name, args, "raise", e.cls, <<e.msg>>, calls, <<>>)

\* return handle_api_error(e, context) in a tool's except Exception clause
handle_api_error(name, args, e, context, calls) ==
    IF e.cls = "ApiException"
    THEN ToolReport(name, args, "text", "api_error",
                    <<"API Error during", context, e.status, e.msg>>, calls, <<>>)
    ELSE ToolReport(name, args, "text", "error",
                    <<"Error during", context, e.msg>>, calls, <<>>)

\* the stock table file: absent, not JSON, a JSON list, or a dict of categories
StockTable(state, cats) == [state |-> state, cats |-> cats]

\* load_stock_data(): None when the file is absent or cannot be parsed
load_stock_data(tbl) ==
    IF tbl.state \in {"missing", "invalid"} THEN StockTable("none", <<>>) ELSE tbl

\* not categorized_stocks: None, {} and [] are falsy
NoStockData(tbl) == tbl.state = "none" \/ (tbl.state = "dict" /\ tbl.cats = <<>>)

\* characters of symbols, names and search terms, and str.lower / str.upper on them
Chars == {"a", "A", "b", "B"}
LowerChar(c) == IF c = "A" THEN "a" ELSE IF c = "B" THEN "b" ELSE c
UpperChar(c) == IF c = "a" THEN "A" ELSE IF c = "b" THEN "B" ELSE c
lower(s) == [i \in 1..Len(s) |-> LowerChar(s[i])]
upper(s) == [i \in 1..Len(s) |-> UpperChar(s[i])]

\* sub in s, on strings
Contains(sub, s) ==
    \E i \in 0..(Len(s) - Len(sub)) : SubSeq(s, i + 1, i + Len(sub)) = sub

\* a stock entry: the keys it has, and its values
Stock(keys, symbol, name) ==
    [keys |-> keys, symbol |-> symbol, name |-> name, instrument_key |-> "NSE_EQ|INE009A01021"]
\* stock.get('name', default)
stock_get_name(stock, default) == IF "name" \in stock.keys THEN stock.name ELSE default
\* the dict appended to found_stocks / matches
Match(stock, category) ==
    [symbol |-> stock.symbol, name |-> stock_get_name(stock, <<"N/A">>),
     instrument_key |-> stock.instrument_key, category |-> category]
KeyError(key) == Exc("KeyError", key)

----------------------------------------------------------------------------
(* upstox_server.py: the tools that call the remote API *)

\* what the SDK call gives the tool: an exception, or a response whose data is
\* complete, empty, or lacks a field the tool formats
RemoteFailures ==
    {Raised(ApiException("401", "Unauthorized")),
     Raised(Exc("MaxRetryError", "Max retries exceeded"))}
RemoteData == {Returned(Str(shape)) : shape \in {"full", "empty", "partial"}}
\* the remote API answers a request that carries no token with 401
ToolResponses(token) ==
    IF Truthy(token) THEN RemoteFailures \cup RemoteData ELSE RemoteFailures

\* the try body of a remote tool once the SDK call has answered: text, or the
\* exception raised while formatting
tool_try(name, r) ==
    IF r.exc # NoExc THEN Raised(r.exc)
    ELSE IF r.value.s = "full" THEN Returned(Str(name))
    ELSE IF r.value.s = "empty"
    THEN IF name = "get_user_profile"
         THEN Raised(Exc("AttributeError", "'NoneType' object has no attribute 'user_name'"))
         ELSE Returned(Str("no_data"))
    ELSE IF name = "get_full_market_quote"
    THEN Raised(Exc("AttributeError", "'NoneType' object has no attribute 'close'"))
    ELSE Raised(Exc("TypeError", "unsupported operand or format for NoneType"))

\* a remote tool: ApiClient(configuration), one SDK call, the formatted answer
remote_tool(name, args, context) ==
    /\ server_pc = "running"
    /\ \E r \in ToolResponses(configuration) :
          LET b == tool_try(name, r)
          IN  tool' = IF b.exc # NoExc
                      THEN handle_api_error(name, args, b.exc, context, 1)
                      ELSE ToolReport(name, args, "text", b.value.s, <<b.value.s>>, 1, <<>>)
    /\ UNCHANGED <<server_pc, configuration, config_error, categorized_stocks>>

InstrumentKeys == {"NSE_EQ|INE009A01021", "bad"}

server_get_user_profile == remote_tool("get_user_profile", <<>>, "fetching user profile")
get_holdings == remote_tool("get_holdings", <<>>, "fetching holdings")
get_positions == remote_tool("get_positions", <<>>, "fetching positions")
get_stock_price(instrument_key) ==
    remote_tool("get_stock_price", <<instrument_key>>, "fetching stock price")
get_full_market_quote(instrument_key) ==
    remote_tool("get_full_market_quote", <<instrument_key>>, "fetching full market quote")

----------------------------------------------------------------------------
(* upstox_server.py: the tools that read the stock table *)

\* for stock in stocks (get_instrument_key): every stock whose upper-cased symbol is
\* symbol_upper, or the KeyError of a stock without a key
RECURSIVE find_in_stocks(_, _, _, _, _)
find_in_stocks(category, stocks, i, found, symbol_upper) ==
    IF i > Len(stocks) THEN Returned(found)
    ELSE IF "symbol" \notin stocks[i].keys THEN Raised(KeyError("symbol"))
    ELSE IF upper(stocks[i].symbol) # symbol_upper
    THEN find_in_stocks(category, stocks, i + 1, found, symbol_upper)
    ELSE IF "instrument_key" \notin stocks[i].keys THEN Raised(KeyError("instrument_key"))
    ELSE find_in_stocks(category, stocks, i + 1,
                        Append(found, Match(stocks[i], category)), symbol_upper)

\* for category, stocks in categorized_stocks.items() (get_instrument_key)
RECURSIVE find_in_categories(_, _, _, _)
find_in_categories(cats, c, found, symbol_upper) ==
    IF c > Len(cats) THEN Returned(found)
    ELSE LET r == find_in_stocks(cats[c].category, cats[c].stocks, 1, found, symbol_upper)
         IN  IF r.exc # NoExc THEN r
             ELSE find_in_categories(cats, c + 1, r.value, symbol_upper)

\* the try body of get_instrument_key
get_instrument_key_try(tbl, symbol) ==
    LET data == load_stock_data(tbl)
    IN  IF NoStockData(data) THEN Returned([kind |-> "not_available", matches |-> <<>>])
        ELSE IF data.state = "list"
        THEN Raised(Exc("AttributeError", "'list' object has no attribute 'items'"))
        ELSE LET r == find_in_categories(data.cats, 1, <<>>, upper(symbol))
             IN  IF r.exc # NoExc THEN Raised(r.exc)
                 ELSE IF r.value = <<>>
                 THEN Returned([kind |-> "not_found", matches |-> <<>>])
                 ELSE IF Len(r.value) = 1
                 THEN Returned([kind |-> "found", matches |-> r.value])
                 ELSE Returned([kind |-> "found_many", matches |-> r.value])

\* the answer of a stock-table tool: its text, or handle_api_error of what it raised
table_tool_report(name, args, context, b) ==
    IF b.exc # NoExc THEN handle_api_error(name, args, b.exc, context, 0)
    ELSE ToolReport(name, args, "text", b.value.kind, <<b.value.kind>>, 0, b.value.matches)

get_instrument_key(symbol) ==
    /\ server_pc = "running"
    /\ tool' = table_tool_report("get_instrument_key", <<symbol>>, "searching for instrument",
                                 get_instrument_key_try(categorized_stocks, symbol))
    /\ UNCHANGED <<server_pc, configuration, config_error, categorized_stocks>>

\* for stock in stocks (search_stocks): append each match, and break once
\* len(matches) >= limit
RECURSIVE search_in_stocks(_, _, _, _, _, _)
search_in_stocks(category, stocks, i, matches, search_lower, limit) ==
    IF i > Len(stocks) THEN Returned(matches)
    ELSE IF "symbol" \notin stocks[i].keys THEN Raised(KeyError("symbol"))
    ELSE LET symbol_match == Contains(search_lower, lower(stocks[i].symbol))
             name_match == Contains(search_lower, lower(stock_get_name(stocks[i], <<>>)))
         IN  IF ~(symbol_match \/ name_match)
             THEN search_in_stocks(category, stocks, i + 1, matches, search_lower, limit)
             ELSE IF "instrument_key" \notin stocks[i].keys
             THEN Raised(KeyError("instrument_key"))
             ELSE LET appended == Append(matches, Match(stocks[i], category))
                  IN  IF Len(appended) >= limit THEN Returned(appended)
                      ELSE search_in_stocks(category, stocks, i + 1, appended,
                                            search_lower, limit)

\* for category, stocks in categorized_stocks.items() (search_stocks): after each
\* category, break once len(matches) >= limit
RECURSIVE search_in_categories(_, _, _, _, _)
search_in_categories(cats, c, matches, search_lower, limit) ==
    IF c > Len(cats) THEN Returned(matches)
    ELSE LET r == search_in_stocks(cats[c].category, cats[c].stocks, 1, matches,
                                   search_lower, limit)
         IN  IF r.exc # NoExc THEN r
             ELSE IF Len(r.value) >= limit THEN r
             ELSE search_in_categories(cats, c + 1, r.value, search_lower, limit)

\* the try body of search_stocks
search_stocks_try(tbl, search_term, limit) ==
    LET data == load_stock_data(tbl)
    IN  IF NoStockData(data) THEN Returned([kind |-> "not_available", matches |-> <<>>])
        ELSE IF data.state = "list"
        THEN Raised(Exc("AttributeError", "'list' object has no attribute 'items'"))
        ELSE LET r == search_in_categories(data.cats, 1, <<>>, lower(search_term), limit)
             IN  IF r.exc # NoExc THEN Raised(r.exc)
                 ELSE IF r.value = <<>>
                 THEN Returned([kind |-> "no_match", matches |-> <<>>])
                 ELSE Returned([kind |-> "results", matches |-> r.value])

search_stocks(search_term, limit) ==
    /\ server_pc = "running"
    /\ tool' = table_tool_report("search_stocks", <<search_term, limit>>, "searching stocks",
                                 search_stocks_try(categorized_stocks, search_term, limit))
    /\ UNCHANGED <<server_pc, configuration, config_error, categorized_stocks>>

----------------------------------------------------------------------------
(* The tool server: import of config, then any tool, any number of times *)

MaxLimit == 3
Limits == 0..MaxLimit

AllKeys == {"symbol", "name", "instrument_key"}
Category(name, stocks) == [category |-> name, stocks |-> stocks]

\* the stock table as the installation leaves it: absent, not JSON, a list, {}, a
\* dict of well-formed entries, and dicts with an entry that lacks a key
ServerTables ==
    {StockTable("missing", <<>>), StockTable("invalid", <<>>), StockTable("list", <<>>),
     StockTable("dict", <<>>),
     StockTable("dict", <<Category("largecap", <<Stock(AllKeys, <<"A", "b">>, <<"B", "a">>),
                                                  Stock({"symbol", "instrument_key"},
                                                        <<"a">>, <<>>)>>),
                          Category("midcap", <<Stock(AllKeys, <<"A", "B">>, <<"b">>)>>)>>),
     StockTable("dict", <<Category("largecap", <<Stock({"name", "instrument_key"},
                                                        <<>>, <<"b">>)>>)>>),
     StockTable("dict", <<Category("largecap", <<Stock({"symbol", "name"},
                                                        <<"a">>, <<"b">>)>>)>>)}

ServerTerms == {<<>>, <<"a">>, <<"a", "B">>, <<"B", "B">>}

\* no UpstoxAuth object: the server never constructs one
AuthIdle ==
    /\ api_key = ""
    /\ api_secret = ""
    /\ redirect_uri = ""
    /\ access_token = PyNone
    /\ token_expires_at = PyNone
    /\ is_authenticated = FALSE
    /\ config_access_token = PyNone
    /\ established = FALSE
    /\ pristine = TRUE
    /\ last = Report("start", "", "", 0, NoErr)
    /\ saved = NotSaved

ServerInit ==
    /\ AuthIdle
    /\ CtorIdle
    /\ MainIdle
    /\ RaceIdle
    /\ file \in EnvFiles
    /\ server_pc = "start"
    /\ configuration = EmptyConfiguration
    /\ config_error = NoExc
    /\ categorized_stocks \in ServerTables
    /\ tool = NoTool

ServerNext ==
    \/ import_config /\ UNCHANGED nonServerVars
    \/ server_get_user_profile /\ UNCHANGED nonServerVars
    \/ get_holdings /\ UNCHANGED nonServerVars
    \/ get_positions /\ UNCHANGED nonServerVars
    \/ (\E k \in InstrumentKeys : get_stock_price(k)) /\ UNCHANGED nonServerVars
    \/ (\E k \in InstrumentKeys : get_full_market_quote(k)) /\ UNCHANGED nonServerVars
    \/ (\E s \in ServerTerms : get_instrument_key(s)) /\ UNCHANGED nonServerVars
    \/ (\E s \in ServerTerms, n \in Limits : search_stocks(s, n))
          /\ UNCHANGED nonServerVars

ServerSpec == ServerInit /\ [][ServerNext]_vars

----------------------------------------------------------------------------
(* search_stocks on every small stock table, search term and limit *)

MaxCategories == 2
MaxStocks == 2
MaxTermLen == 2

CategoryNames == <<"largecap", "midcap", "smallcap", "fno">>

\* well-formed entries: symbol and instrument_key present, name optional
StockPool ==
    {Stock(AllKeys, <<"a">>, <<"B">>), Stock(AllKeys, <<"b", "B">>, <<"A", "b">>),
     Stock({"symbol", "instrument_key"}, <<"A", "b">>, <<>>)}

\* the lists of at most k entries, and the tables of at most m categories of them
StockLists(k) == UNION {[1..n -> StockPool] : n \in 0..k}
SearchTables(m, k) ==
    UNION {{StockTable("dict", [c \in 1..n |-> Category(CategoryNames[c], lists[c])]) :
               lists \in [1..n -> StockLists(k)]} : n \in 0..m}
SearchTerms == UNION {[1..n -> Chars] : n \in 0..MaxTermLen}

SearchInit ==
    /\ AuthIdle
    /\ CtorIdle
    /\ MainIdle
    /\ RaceIdle
    /\ file = MissingFile
    /\ server_pc = "start"
    /\ configuration = EmptyConfiguration
    /\ config_error = NoExc
    /\ categorized_stocks \in SearchTables(MaxCategories, MaxStocks)
    /\ tool = NoTool

SearchNext ==
    \/ import_config /\ UNCHANGED nonServerVars
    \/ (\E s \in SearchTerms, n \in Limits : search_stocks(s, n))
          /\ UNCHANGED nonServerVars

SearchSpec == SearchInit /\ [][SearchNext]_vars

----------------------------------------------------------------------------
(* authenticate.py: the interactive flow *)

MaxEntryLen == 3

\* what the user types, as a sequence of pieces: the text code=, an ampersand, a
\* blank, and any other character
EntrySymbols == {"code=", "&", " ", "x"}
Entries == UNION {[1..n -> EntrySymbols] : n \in 0..MaxEntryLen}

\* str.strip()
RECURSIVE lstrip(_)
lstrip(s) == IF s # <<>> /\ Head(s) = " " THEN lstrip(Tail(s)) ELSE s
RECURSIVE rstrip(_)
rstrip(s) == IF s # <<>> /\ s[Len(s)] = " " THEN rstrip(SubSeq(s, 1, Len(s) - 1)) ELSE s
strip(s) == rstrip(lstrip(s))

\* str.split(sep): the pieces between the occurrences of sep
RECURSIVE split(_, _)
split(s, sep) ==
    IF \A i \in 1..Len(s) : s[i] # sep THEN <<s>>
    ELSE LET i == CHOOSE k \in 1..Len(s) : s[k] = sep /\ \A j \in 1..(k - 1) : s[j] # sep
         IN  <<SubSeq(s, 1, i - 1)>> \o split(SubSeq(s, i + 1, Len(s)), sep)

\* if 'code=' in code: code = code.split('code=')[1].split('&')[0]
clean_code(c) ==
    IF \E i \in 1..Len(c) : c[i] = "code="
    THEN split(split(c, "code=")[2], "&")[1]
    ELSE c

\* sys.exit(status), or main returning
Exit(status) == main_pc' = "exit" /\ exit_status' = status
Goto(pc) == main_pc' = pc /\ UNCHANGED exit_status

\* variant: a save that returns False ends the run with status 1
after_save_status_abort(ret) == IF ret = "True" THEN 0 ELSE 1
\* after save_token_to_file main prints and returns, whatever the call returned
after_save_status(ret) == 0

\* client = UpstoxAuth(None, None, None) inside create_upstox_client; ValueError ends
\* the run with status 1
main_create ==
    /\ main_pc = "start"
    /\ UpstoxAuth_init
    /\ IF last'.ret = "raise" THEN Exit(1) ELSE Goto("created")
    /\ UNCHANGED <<entry, main_code, run>>

\* if os.path.exists(token_file): client.load_token_from_file(token_file)
main_load ==
    /\ main_pc = "created"
    /\ IF file.exists THEN load_token_from_file ELSE UNCHANGED authVars
    /\ Goto("loaded")
    /\ UNCHANGED <<entry, main_code, run>>

\* if client.is_authenticated: check_connection(), and ask when it is connected
main_check ==
    /\ main_pc = "loaded"
    /\ IF is_authenticated
       THEN /\ check_connection
            /\ Goto(IF last'.ret = "connected" THEN "ask" ELSE "fresh")
       ELSE /\ UNCHANGED authVars
            /\ Goto("fresh")
    /\ UNCHANGED <<entry, main_code, run>>

\* "Do you want to re-authenticate? (y/n)": anything but y returns
main_choice ==
    /\ main_pc = "ask"
    /\ \E choice \in {"y", "n"} : IF choice # "y" THEN Exit(0) ELSE Goto("fresh")
    /\ UNCHANGED <<authVars, entry, main_code, run>>

\* auth_url = client.get_auth_url()
main_auth_url ==
    /\ main_pc = "fresh"
    /\ get_auth_url("upstox_auth")
    /\ Goto("input")
    /\ UNCHANGED <<entry, main_code, run>>

\* code = input(...).strip(); exit on an empty code; clean up a pasted URL
main_input ==
    /\ main_pc = "input"
    /\ \E e \in Entries :
          /\ entry' = e
          /\ IF strip(e) = <<>>
             THEN main_code' = strip(e) /\ Exit(1)
             ELSE main_code' = clean_code(strip(e)) /\ Goto("exchange")
    /\ UNCHANGED <<authVars, run>>

\* token_info = client.set_access_token(code); its exception ends the run with status 1
main_exchange ==
    /\ main_pc = "exchange"
    /\ set_access_token(main_code)
    /\ IF last'.ret = "dict"
       THEN /\ Goto("save")
            /\ run' = [run EXCEPT !.exchanged = @ + 1]
       ELSE /\ Exit(1)
            /\ run' = [run EXCEPT !.failed = @ + 1]
    /\ UNCHANGED <<entry, main_code>>

\* client.save_token_to_file(): success or a warning, then the closing messages
main_save ==
    /\ main_pc = "save"
    /\ save_token_to_file
    /\ run' = [run EXCEPT !.saves = @ + 1, !.save_ret = last'.ret]
    /\ Exit(after_save_status(last'.ret))
    /\ UNCHANGED <<entry, main_code>>

\* the environment of the run: the .env file complete, or without the API key
MainEnvs ==
    {[n \in EnvNames |-> Str("from_env")],
     [n \in EnvNames |-> IF n = "UPSTOX_API_KEY" THEN PyNone ELSE Str("from_env")]}
\* the token file the run finds: none, an empty one, or a saved record
MainFiles ==
    {MissingFile, FileWith(<<>>)}
    \cup {FileWith(ObjectText(JString(t), JString(SyntheticExpiry))) : t \in Tokens}

MainInit ==
    /\ AuthIdle
    /\ ctor_args = [api_key |-> PyNone, api_secret |-> PyNone, redirect_uri |-> PyNone]
    /\ environ \in MainEnvs
    /\ file \in MainFiles
    /\ ServerIdle
    /\ RaceIdle
    /\ main_pc = "start"
    /\ entry = <<>>
    /\ main_code = <<>>
    /\ exit_status = Running
    /\ run = RunLog(file, 0, 0, 0, "")

MainNext ==
    \/ main_create /\ UNCHANGED <<ctorVars, serverVars, raceVars>>
    \/ main_load /\ UNCHANGED <<ctorVars, serverVars, raceVars>>
    \/ main_check /\ UNCHANGED <<ctorVars, serverVars, raceVars>>
    \/ main_choice /\ UNCHANGED <<ctorVars, serverVars, raceVars>>
    \/ main_auth_url /\ UNCHANGED <<ctorVars, serverVars, raceVars>>
    \/ main_input /\ UNCHANGED <<ctorVars, serverVars, raceVars>>
    \/ main_exchange /\ UNCHANGED <<ctorVars, serverVars, raceVars>>
    \/ main_save /\ UNCHANGED <<ctorVars, serverVars, raceVars>>

MainSpec == MainInit /\ [][MainNext]_vars

----------------------------------------------------------------------------
(* Two processes in save_token_to_file on the same path, and one that loads *)

ProcNames == {"A", "B"}

\* the length of a lexeme on disk, in units: the access token Ti is i units long,
\* every other lexeme one unit
Width(lex) ==
    IF lex.k = "access_token" /\ lex.v.t = "string" /\ lex.v.s \in Tokens
    THEN CHOOSE i \in 1..Len(TokenNames) : TokenNames[i] = lex.v.s
    ELSE 1

\* one unit of the file: the i-th of the n units of a lexeme
Cell(lex, i, n) == [lex |-> lex, i |-> i, n |-> n]

\* the bytes json.dump writes for a text
RECURSIVE Bytes(_)
Bytes(text) ==
    IF text = <<>> THEN <<>>
    ELSE [i \in 1..Width(Head(text)) |-> Cell(Head(text), i, Width(Head(text)))]
         \o Bytes(Tail(text))

\* bytes that are no JSON token
BadLex == Lex("?", JNull)

\* the lexemes json.load sees in the bytes: a lexeme where all its units follow one
\* another, BadLex for a unit that is cut off
RECURSIVE ParseCells(_)
ParseCells(cells) ==
    IF cells = <<>> THEN <<>>
    ELSE LET c == Head(cells)
         IN  IF /\ c.i = 1
                /\ Len(cells) >= c.n
                /\ \A k \in 1..c.n : cells[k] = Cell(c.lex, k, c.n)
             THEN <<c.lex>> \o ParseCells(SubSeq(cells, c.n + 1, Len(cells)))
             ELSE <<BadLex>> \o ParseCells(Tail(cells))

\* variant: a decoder that stops at the end of the first object and ignores the rest
read_text_first_object(cells) ==
    LET text == ParseCells(cells)
        ends == {i \in 1..Len(text) : text[i] = CLOSE}
    IN  IF ends = {} THEN text
        ELSE SubSeq(text, 1, CHOOSE i \in ends : \A j \in ends : i <= j)

\* the text json.load(f) decodes: the whole content of the file
read_text(cells) == ParseCells(cells)

\* f.write(data) at offset 0 of a file opened with 'w': the bytes beyond the data
\* that another process wrote in the meantime stay
Overlay(old, data) == data \o SubSeq(old, Len(data) + 1, Len(old))

\* the record a process writes, after its own exchange
ProcRecord(proc) ==
    json_dump(token_data(Str(proc.tok), Str(SyntheticExpiry), proc.now))

\* with open(file_path, 'w') as f: the file is created or truncated
race_open(p) ==
    /\ procs[p].pc = "idle"
    /\ procs' = [procs EXCEPT ![p].pc = "opened"]
    /\ disk' = <<>>
    /\ file' = FileWith(read_text(disk'))
    /\ UNCHANGED <<api_key, api_secret, redirect_uri, access_token, token_expires_at,
                   is_authenticated, config_access_token, last, established, pristine,
                   saved, seen>>

\* json.dump(token_data, f, indent=2) and the close: the record goes to the file in
\* one write at the offset of this process's descriptor
race_write(p) ==
    /\ procs[p].pc = "opened"
    /\ procs' = [procs EXCEPT ![p].pc = "done"]
    /\ disk' = Overlay(disk, Bytes(ProcRecord(procs[p])))
    /\ file' = FileWith(read_text(disk'))
    /\ UNCHANGED <<api_key, api_secret, redirect_uri, access_token, token_expires_at,
                   is_authenticated, config_access_token, last, established, pristine,
                   saved, seen>>

\* a third process restores from the file as it is now
race_load ==
    /\ load_token_from_file
    /\ seen' = [read |-> TRUE, opened |-> (\E p \in ProcNames : procs[p].pc # "idle"),
                bytes |-> disk]
    /\ UNCHANGED <<procs, disk>>

\* the file before the two saves: none, or the record of an earlier run
RaceFiles ==
    {MissingFile,
     FileWith(json_dump(token_data(Str(TokenNames[1]), Str(SyntheticExpiry),
                                   TimestampNames[1])))}

RaceInit ==
    /\ api_key = "K"
    /\ api_secret = "S"
    /\ redirect_uri = DefaultRedirectUri
    /\ access_token = PyNone
    /\ token_expires_at = PyNone
    /\ is_authenticated = FALSE
    /\ config_access_token = PyNone
    /\ file \in RaceFiles
    /\ established = FALSE
    /\ pristine = TRUE
    /\ last = Report("__init__", "", "object", 0, NoErr)
    /\ saved = NotSaved
    /\ CtorIdle
    /\ ServerIdle
    /\ MainIdle
    /\ procs \in [ProcNames -> [pc : {"idle"}, tok : Tokens, now : Timestamps]]
    /\ disk = Bytes(file.text)
    /\ seen = NotSeen

RaceNext ==
    \/ (\E p \in ProcNames : race_open(p)) /\ UNCHANGED <<ctorVars, serverVars, mainVars>>
    \/ (\E p \in ProcNames : race_write(p)) /\ UNCHANGED <<ctorVars, serverVars, mainVars>>
    \/ race_load /\ UNCHANGED <<ctorVars, serverVars, mainVars>>

RaceSpec == RaceInit /\ [][RaceNext]_vars

----------------------------------------------------------------------------
(* Properties *)

NonEmptyString(v) == v.t = "str" /\ v.s # ""

ExchangeSucceeded(r) == r.op = "set_access_token" /\ r.ret = "dict"
ExchangeFailed(r)    == r.op = "set_access_token" /\ r.ret = "raise"
RestoreSucceeded(r)  == r.op = "load_token_from_file" /\ r.ret = "True"
RestoreFailed(r)     == r.op = "load_token_from_file" /\ r.ret = "False"

\* C1: in every reachable state is_authenticated is true if and only if access_token
\* is a non-empty string.
C1_AuthenticatedIffToken == is_authenticated <=> NonEmptyString(access_token)

\* C2: every operation on an object either replaces access_token, token_expires_at and
\* is_authenticated together (a successful exchange or a successful restore) or leaves
\* all three unchanged; a load_token_from_file that returns False changes none of them.
C2_NoPartialUpdate ==
    [][ \/ last'.op = "__init__"
        \/ ExchangeSucceeded(last')
        \/ RestoreSucceeded(last')
        \/ UNCHANGED <<access_token, token_expires_at, is_authenticated>> ]_vars

\* C3: a set_access_token call that raises on an unauthenticated session leaves
\* is_authenticated false and access_token, token_expires_at and config.access_token
\* unchanged; the error raised wraps the remote error, and the remote token call was
\* made once (no retry).
C3_FailedExchangeLeavesSession ==
    [][ (~is_authenticated /\ ExchangeFailed(last')) =>
            /\ ~is_authenticated'
            /\ UNCHANGED <<access_token, token_expires_at, config_access_token>>
            /\ last'.err.msg = "Failed to exchange authorization code"
            /\ last'.err.cause \in RemoteErrors
            /\ last'.err.cause = last'.remote
            /\ last'.calls = 1 ]_vars

C3_Witness ==
    /\ ExchangeFailed(last)
    /\ ~is_authenticated
    /\ last.err.cause = "(401) Invalid Auth code"

\* C4: on an object on which no exchange and no restore has succeeded, get_user_profile
\* and get_market_status fail with the not-authenticated error and make no remote call.
C4_GuardedBeforeEstablished ==
    (~established /\ last.op \in {"get_user_profile", "get_market_status"}) =>
        /\ last.ret = "raise"
        /\ last.err.msg = "Not authenticated. Please set access token first."
        /\ last.calls = 0
        /\ last.remote = "none"

\* get_market_status called after a failed restore that left an empty token behind
C4_Witness ==
    /\ ~established
    /\ last.op = "get_market_status"
    /\ last.ret = "raise"
    /\ access_token = Str("")

\* the text of the record {access_token, expires_at, saved_at} of a session
RecordText(tok, exp, now) ==
    << Lex("{", JNull),
       Lex("access_token", JsonEncode(tok)),
       Lex("expires_at", JsonEncode(exp)),
       Lex("saved_at", JString(now)),
       Lex("}", JNull) >>

SaveCalled(r) == r.op = "save_token_to_file"
WriteFailed(r) == r.io \in {"open_fails", "write_fails"}

\* C5 as stated: after a successful exchange the session is authenticated with the
\* remote's token T, a save called next returns True, and a load on a freshly
\* constructed object of the file so saved returns True and yields is_authenticated,
\* access_token = T and the same token_expires_at.
C5_RoundTrip ==
    [][ /\ ExchangeSucceeded(last') =>
              /\ last'.token \in Tokens
              /\ is_authenticated'
              /\ access_token' = Str(last'.token)
        /\ (ExchangeSucceeded(last) /\ SaveCalled(last')) => last'.ret = "True"
        /\ (pristine /\ saved.valid /\ saved.after_exchange
              /\ last'.op = "load_token_from_file") =>
              /\ last'.ret = "True"
              /\ is_authenticated'
              /\ access_token' = saved.tok
              /\ token_expires_at' = saved.exp ]_vars

\* C5 amended: as C5_RoundTrip, with the save returning True provided its file write
\* does not fail (and False when it fails).
C5_RoundTripWhenWritten ==
    [][ /\ ExchangeSucceeded(last') =>
              /\ last'.token \in Tokens
              /\ is_authenticated'
              /\ access_token' = Str(last'.token)
        /\ (ExchangeSucceeded(last) /\ SaveCalled(last')) =>
              (last'.ret = "True" <=> ~WriteFailed(last'))
        /\ (pristine /\ saved.valid /\ saved.after_exchange
              /\ last'.op = "load_token_from_file") =>
              /\ last'.ret = "True"
              /\ is_authenticated'
              /\ access_token' = saved.tok
              /\ token_expires_at' = saved.exp ]_vars

\* a fresh object restored the record that a save wrote right after an exchange
C5_Witness ==
    /\ RestoreSucceeded(last)
    /\ last.fresh
    /\ saved.valid
    /\ saved.after_exchange
    /\ access_token = Str("T1")
    /\ token_expires_at = Str("3:30 AM next trading day")

\* the file exists, is a JSON object and has a non-empty string under access_token
HoldsToken(f) ==
    /\ f.exists
    /\ Len(f.text) >= 2
    /\ f.text[1].k = "{"
    /\ f.text[Len(f.text)].k = "}"
    /\ \A i \in 2..(Len(f.text) - 1) : f.text[i].k \notin {"{", "}", "[]"}
    /\ \E i \in 2..(Len(f.text) - 1) :
          /\ f.text[i].k = "access_token"
          /\ f.text[i].v.t = "string"
          /\ f.text[i].v.s # ""

\* C6: load_token_from_file never raises and returns True exactly when the file exists,
\* parses as JSON and holds a non-empty access_token; otherwise it returns False, and a
\* fresh session stays unauthenticated.
C6_LoadReturnsTrueIffToken ==
    last.op = "load_token_from_file" =>
        /\ last.ret \in {"True", "False"}
        /\ last.ret = "True" <=> HoldsToken(file)
        /\ (last.ret = "False" /\ last.fresh) => ~is_authenticated

\* a fresh object loaded a well-formed file whose token field is the empty string
C6_Witness ==
    /\ RestoreFailed(last)
    /\ last.fresh
    /\ file.exists
    /\ json_load_kind(file.text) = "dict"
    /\ access_token = Str("")

\* C7 as stated: save_token_to_file never raises; in every session state a call whose
\* write does not fail replaces the file content with the record of the session and
\* returns True, and a call whose write fails returns False.
C7_SaveOverwritesAlways ==
    SaveCalled(last) =>
        /\ last.ret \in {"True", "False"}
        /\ WriteFailed(last) => last.ret = "False"
        /\ ~WriteFailed(last) =>
              /\ last.ret = "True"
              /\ file = [exists |-> TRUE,
                          text |-> RecordText(access_token, token_expires_at, last.arg)]

\* C7 amended: save_token_to_file never raises; in every session state with a non-empty
\* access_token a call whose write does not fail replaces the file content with the
\* record of the session and returns True, and a call whose write fails returns False;
\* with no (or an empty) access_token it returns False and leaves the file as it is.
C7_SaveOverwritesWhenToken ==
    [][ SaveCalled(last') =>
          /\ last'.ret \in {"True", "False"}
          /\ WriteFailed(last') => last'.ret = "False"
          /\ (NonEmptyString(access_token) /\ ~WriteFailed(last')) =>
                /\ last'.ret = "True"
                /\ file' = [exists |-> TRUE,
                             text |-> RecordText(access_token, token_expires_at, last'.arg)]
          /\ ~NonEmptyString(access_token) =>
                /\ last'.ret = "False"
                /\ file' = file
          /\ UNCHANGED <<access_token, token_expires_at, is_authenticated>> ]_vars

\* a save returned True and the file holds exactly the record of the session
C7_Witness ==
    /\ SaveCalled(last)
    /\ last.ret = "True"
    /\ saved.valid
    /\ file.text = RecordText(access_token, token_expires_at, last.arg)

\* C8: once is_authenticated is true on an object it stays true after every later
\* operation on that object.
C8_AuthenticatedIsStable ==
    [][ (is_authenticated /\ last'.op # "__init__") => is_authenticated' ]_vars

\* an authenticated session after a restore that failed on a file without a token
C8_Witness ==
    /\ RestoreFailed(last)
    /\ is_authenticated
    /\ ~NonEmptyString(access_token)

\* C9: check_connection never raises; unauthenticated it returns connected = false with
\* an error and makes no remote call; when the profile call fails it returns
\* connected = false with the error; it returns connected = true only when the session
\* is authenticated and the profile call succeeded; it never changes the session.
C9_CheckConnectionNeverRaises ==
    [][ last'.op = "check_connection" =>
          /\ last'.ret \in {"connected", "not_connected"}
          /\ ~is_authenticated =>
                /\ last'.ret = "not_connected"
                /\ last'.err.msg = "Not authenticated"
                /\ last'.calls = 0
          /\ last'.remote \in RemoteErrors =>
                /\ last'.ret = "not_connected"
                /\ last'.err.msg # ""
                /\ last'.err.cause = last'.remote
          /\ last'.ret = "connected" =>
                /\ is_authenticated
                /\ last'.remote = "ok"
                /\ last'.calls = 1
          /\ UNCHANGED <<access_token, token_expires_at, is_authenticated,
                         config_access_token>> ]_vars

\* check_connection on an authenticated session whose profile call was rejected
C9_Witness ==
    /\ last.op = "check_connection"
    /\ last.ret = "not_connected"
    /\ is_authenticated
    /\ last.remote = "(401) Invalid Auth code"

\* C10: get_auth_url makes no remote call, changes no session or credential field, and
\* returns the URL built from api_key, redirect_uri and state alone, with the query
\* parameters in the order response_type=code, client_id, redirect_uri, state.
C10_AuthUrlIsPure ==
    [][ last'.op = "get_auth_url" =>
          /\ last'.calls = 0
          /\ last'.remote = "none"
          /\ last'.ret = "url"
          /\ last'.arg \in OAuthStates
          /\ last'.url = << "https://api.upstox.com/v2/login/authorization/dialog", "?",
                            "response_type=code", "&",
                            "client_id=", api_key, "&",
                            "redirect_uri=", redirect_uri, "&",
                            "state=", last'.arg >>
          /\ UNCHANGED <<api_key, api_secret, redirect_uri, access_token, token_expires_at,
                         is_authenticated, config_access_token, file>> ]_vars

\* get_auth_url called with a non-default state on an authenticated session
C10_Witness ==
    /\ last.op = "get_auth_url"
    /\ last.arg = "s1"
    /\ is_authenticated

\* C11: constructing UpstoxAuth raises the configuration error, and returns no object,
\* exactly when the API key or the API secret is empty after the argument-then-
\* environment fallback; whenever it succeeds api_key, api_secret and redirect_uri are
\* all non-empty and the session starts unauthenticated with no token.
C11_ConstructionValidates ==
    last.op = "__init__" =>
        LET key_given == \/ NonEmptyString(ctor_args.api_key)
                         \/ NonEmptyString(environ["UPSTOX_API_KEY"])
            secret_given == \/ NonEmptyString(ctor_args.api_secret)
                            \/ NonEmptyString(environ["UPSTOX_API_SECRET"])
        IN  /\ last.ret \in {"raise", "object"}
            /\ last.ret = "raise" <=> ~(key_given /\ secret_given)
            /\ last.ret = "raise" => (last.err.cause = "ValueError" /\ api_key = "")
            /\ last.ret = "object" =>
                  /\ api_key # ""
                  /\ api_secret # ""
                  /\ redirect_uri # ""
                  /\ access_token = PyNone
                  /\ token_expires_at = PyNone
                  /\ ~is_authenticated

\* the values stored under a key of the object a file text holds
ValuesAt(text, key) == {text[i].v : i \in {j \in 2..(Len(text) - 1) : text[j].k = key}}
KeysOf(text) == {text[i].k : i \in 2..(Len(text) - 1)}

\* C14: every record that save_token_to_file writes has the three keys access_token,
\* expires_at and saved_at, with access_token a non-empty string and expires_at a
\* string (never null).
C14_SavedRecordWellFormed ==
    (SaveCalled(last) /\ last.ret = "True") =>
        /\ file.exists
        /\ Len(file.text) = 5
        /\ file.text[1].k = "{"
        /\ file.text[5].k = "}"
        /\ KeysOf(file.text) = {"access_token", "expires_at", "saved_at"}
        /\ \A v \in ValuesAt(file.text, "access_token") : v.t = "string" /\ v.s # ""
        /\ \A v \in ValuesAt(file.text, "expires_at") : v.t = "string"

\* C12: every tool of the tool server returns a text result on every call and never
\* lets an exception escape; a failure of the remote call, of the response shape or of
\* loading the stock table comes back as a formatted error string.
C12_ToolsAlwaysReturnText ==
    tool.name # "none" =>
        /\ tool.outcome = "text"
        /\ Len(tool.text) > 0
        /\ tool.kind \in {"api_error", "error"} =>
              tool.text[1] \in {"API Error during", "Error during"}

\* a quote whose response lacks the ohlc block, and a search over a table with an
\* entry that has no symbol, both answered with an error string
C12_Witness ==
    /\ tool.outcome = "text"
    /\ tool.kind = "error"
    /\ \/ tool.name = "get_full_market_quote" /\ tool.calls = 1
       \/ tool.name = "search_stocks" /\ tool.text[3] = "symbol"

AuthenticatedTools == {"get_user_profile", "get_holdings", "get_positions"}

\* C13: when the token file was missing, malformed or had an empty token at server
\* start-up, get_user_profile, get_holdings and get_positions perform no remote call
\* and report the not-authenticated condition.
C13_NoRemoteCallWithoutToken ==
    (server_pc = "running" /\ ~HoldsToken(file) /\ tool.name \in AuthenticatedTools) =>
        /\ tool.calls = 0
        /\ tool.kind = "not_authenticated"

\* C18: get_configuration raises FileNotFoundError when the token file does not exist
\* and ValueError when it is not valid JSON or has a missing or empty access_token, and
\* otherwise returns a configuration carrying exactly the file's access_token; the
\* import of config never fails and falls back to an empty configuration on those errors.
C18_ConfigurationFromFile ==
    server_pc = "running" =>
        /\ ~file.exists => config_error.cls = "FileNotFoundError"
        /\ (file.exists /\ ~HoldsToken(file)) => config_error.cls = "ValueError"
        /\ HoldsToken(file) =>
              /\ config_error = NoExc
              /\ ValuesAt(file.text, "access_token") = {JsonEncode(configuration)}
        /\ config_error # NoExc => configuration = EmptyConfiguration

\* the server started on a JSON object without a usable access_token
C18_Witness ==
    /\ server_pc = "running"
    /\ json_load_kind(file.text) = "dict"
    /\ config_error.cls = "ValueError"
    /\ configuration = EmptyConfiguration
    /\ tool.name = "get_holdings"

\* every entry of a stock table with its category, in table order
RECURSIVE TableEntries(_)
TableEntries(cats) ==
    IF cats = <<>> THEN <<>>
    ELSE [i \in 1..Len(Head(cats).stocks) |->
             [stock |-> Head(cats).stocks[i], category |-> Head(cats).category]]
         \o TableEntries(Tail(cats))

\* the entries whose symbol or name contains the term, case-insensitively
MatchingEntries(cats, term) ==
    LET Hit(e) == \/ Contains(lower(term), lower(e.stock.symbol))
                  \/ "name" \in e.stock.keys /\ Contains(lower(term), lower(e.stock.name))
        hits == SelectSeq(TableEntries(cats), Hit)
    IN  [i \in 1..Len(hits) |-> Match(hits[i].stock, hits[i].category)]

FirstN(s, n) == SubSeq(s, 1, IF n < Len(s) THEN n ELSE Len(s))

\* C16: search_stocks(search_term, limit) lists at most limit matches, for every stock
\* table, search term and limit >= 0, and the matches listed are the first ones in
\* table order whose symbol or name contains the search term case-insensitively.
C16_SearchListsFirstLimitMatches ==
    tool.name = "search_stocks" =>
        /\ Len(tool.matches) <= tool.args[2]
        /\ tool.matches = FirstN(MatchingEntries(categorized_stocks.cats, tool.args[1]),
                                 tool.args[2])

\* the substring after the first code= and before the next &
AfterCodeBeforeAmp(c) ==
    LET i == CHOOSE k \in 1..Len(c) : c[k] = "code=" /\ \A j \in 1..(k - 1) : c[j] # "code="
        rest == SubSeq(c, i + 1, Len(c))
        amps == {j \in 1..Len(rest) : rest[j] = "&"}
    IN  IF amps = {} THEN rest
        ELSE SubSeq(rest, 1, (CHOOSE j \in amps : \A k \in amps : j <= k) - 1)

\* C15: in authenticate.main set_access_token is only ever called with a non-empty
\* authorization code, for every string the user can enter: an empty entry exits before
\* the exchange, and an entry containing code= is reduced to the substring after code=
\* and before the next & before being exchanged.
C15_ExchangeCodeNonEmpty ==
    /\ last.op = "set_access_token" => main_code # <<>>
    /\ (main_pc = "exit" /\ strip(entry) = <<>>) => run.exchanged + run.failed = 0
    /\ (last.op = "set_access_token" /\ \E i \in 1..Len(entry) : entry[i] = "code=") =>
          main_code = AfterCodeBeforeAmp(strip(entry))

\* C17: in every run of authenticate.main the token file is written only after
\* set_access_token has succeeded in that run, and every successful exchange is followed
\* by exactly one save attempt; a run whose exchange fails exits with status 1 without
\* writing the file, and a save attempt that returns False does not abort the run, which
\* still ends as a successful authentication.
C17_SaveOnlyAfterExchange ==
    /\ run.exchanged = 0 => file = run.file0 /\ run.saves = 0
    /\ run.saves <= run.exchanged
    /\ run.exchanged = 1 => main_pc \in {"save", "exit"}
    /\ main_pc = "save" => run.exchanged = 1 /\ run.saves = 0
    /\ (main_pc = "exit" /\ run.exchanged = 1) => run.saves = 1
    /\ run.failed > 0 =>
          /\ main_pc = "exit"
          /\ exit_status = 1
          /\ file = run.file0
          /\ run.saves = 0
    /\ (main_pc = "exit" /\ run.saves = 1) =>
          /\ exit_status = 0
          /\ is_authenticated

\* a run whose save could not open the file, ended with status 0 and the session
\* authenticated
C17_Witness ==
    /\ main_pc = "exit"
    /\ run.exchanged = 1
    /\ run.saves = 1
    /\ run.save_ret = "False"
    /\ last.io = "open_fails"
    /\ exit_status = 0
    /\ file = run.file0

\* the bytes are the complete record of neither process
Torn(bytes) == \A p \in ProcNames : bytes # Bytes(ProcRecord(procs[p]))

\* C19: with no locking on the token file, two processes that call save_token_to_file
\* on the same path concurrently can interleave their truncate and write steps so that
\* the file holds neither process's complete record, and a load_token_from_file that
\* reads the file in such a state returns False without raising.
C19_TornFileLoadsFalse ==
    (seen.read /\ seen.opened /\ Torn(seen.bytes)) =>
        /\ last.op = "load_token_from_file"
        /\ last.ret = "False"

\* both saves have returned, the file is the shorter record followed by the end of the
\* longer one, and the load that read it returned False
C19_Witness ==
    /\ \A p \in ProcNames : procs[p].pc = "done"
    /\ Torn(disk)
    /\ disk # <<>>
    /\ seen.read
    /\ seen.bytes = disk
    /\ last.op = "load_token_from_file"
    /\ last.ret = "False"
====
